---- MODULE Spec2Model ----
(***************************************************************************)
(* Model of packages/api-gw/src/apis/index.ts: the ApiGwRequest action     *)
(* dispatcher (one callable per allow-listed action over a generic RPC     *)
(* client) and the Validate configuration validator (a Joi schema).        *)
(*                                                                         *)
(* Strings whose characters the code inspects (response messages, config   *)
(* values) are sequences of one-character strings; names that are only     *)
(* compared (action names, object keys) are TLA+ strings.  A JavaScript    *)
(* value is a record tagged with its type; an object is a function from    *)
(* its keys to values.                                                     *)
(***************************************************************************)
EXTENDS Integers, Sequences, FiniteSets, TLC

VARIABLES actionList, needCheckAction, apis, calls, rpc, config, result, revalidated

vars == <<actionList, needCheckAction, apis, calls, rpc, config, result, revalidated>>

(***************************************************************************)
(* Bounds                                                                  *)
(***************************************************************************)
\* number of action calls that may be in flight at once
NumCalls == 2
\* largest number of endpoints in a generated config
MaxEndpoints == 1

(***************************************************************************)
(* JavaScript values                                                       *)
(***************************************************************************)
Undefined == [type |-> "undefined"]
Bool(b) == [type |-> "boolean", val |-> b]
Num(n) == [type |-> "number", val |-> n]
Str(s) == [type |-> "string", val |-> s]
Arr(s) == [type |-> "array", val |-> s]
Obj(f) == [type |-> "object", val |-> f]

EmptyObj == [k \in {} |-> Undefined]

\* object spread { ...a, ...b }: keys of b override keys of a
Spread(a, b) ==
  [k \in (DOMAIN a) \cup (DOMAIN b) |-> IF k \in DOMAIN b THEN b[k] ELSE a[k]]

\* Array.prototype.indexOf, 0-based, -1 when absent
RECURSIVE IndexOfFrom(_, _, _)
IndexOfFrom(arr, x, i) ==
  IF i > Len(arr) THEN -1
  ELSE IF arr[i] = x THEN i - 1
  ELSE IndexOfFrom(arr, x, i + 1)

indexOf(arr, x) == IndexOfFrom(arr, x, 1)

(***************************************************************************)
(* String.prototype.match with a pattern that has no regular-expression    *)
(* metacharacter: the pattern is tried at every start position, left to    *)
(* right, character by character, case-sensitively.                        *)
(***************************************************************************)
RECURSIVE MatchHere(_, _, _, _)
MatchHere(s, p, i, j) ==
  IF j > Len(p) THEN TRUE
  ELSE IF i + j - 1 > Len(s) THEN FALSE
  ELSE IF s[i + j - 1] # p[j] THEN FALSE
  ELSE MatchHere(s, p, i, j + 1)

RECURSIVE MatchFrom(_, _, _)
MatchFrom(s, p, i) ==
  IF i > Len(s) + 1 THEN FALSE
  ELSE IF MatchHere(s, p, i, 1) THEN TRUE
  ELSE MatchFrom(s, p, i + 1)

match(s, p) == MatchFrom(s, p, 1)

DoesNotExist == <<"d","o","e","s"," ","n","o","t"," ","e","x","i","s","t">>
NotFound == <<"n","o","t"," ","f","o","u","n","d">>

(***************************************************************************)
(* ApiGwRequest                                                            *)
(***************************************************************************)
HttpError(code, message) == [name |-> "HttpError", code |-> code, message |-> message]

\* result of an async call: the promise resolves with a value or rejects
Return(v) == [kind |-> "return", value |-> v]
Throw(e) == [kind |-> "throw", value |-> e]

CheckExistsFromError_OnlyNotFound(err) ==
  IF match(err.message, NotFound) THEN FALSE ELSE TRUE

CheckExistsFromError(err) ==
  IF match(err.message, DoesNotExist) THEN FALSE
  ELSE IF match(err.message, NotFound) THEN FALSE
  ELSE TRUE

ActionListInit ==
  << "CreateService", "DeleteService", "DescribeService", "ReleaseService",
     "UnReleaseService", "CreateApi", "DescribeApi", "DeleteApi", "ModifyApi",
     "DescribeApisStatus", "CreateUsagePlan", "DescribeApiUsagePlan",
     "DescribeUsagePlanSecretIds", "DescribeUsagePlan", "DeleteUsagePlan",
     "ModifyUsagePlan", "CreateApiKey", "DeleteApiKey", "DisableApiKey",
     "EnableApiKey", "DescribeApiKeysStatus", "BindSecretIds", "UnBindSecretIds",
     "BindEnvironment", "UnBindEnvironment" >>

NeedCheckActionInit ==
  << "UnBindSecretIds", "UnBindEnvironment", "DeleteUsagePlan", "DeleteApiKey" >>

\* the forEach of apiFactory: this.apis[item] = closure capturing item
RECURSIVE apiFactoryFrom(_, _, _)
apiFactoryFrom(list, i, acc) ==
  IF i > Len(list) THEN acc
  ELSE apiFactoryFrom(list, i + 1, Spread(acc, [k \in {list[i]} |-> [item |-> list[i]]]))

apiFactory_SkipLast(list) == apiFactoryFrom(SubSeq(list, 1, Len(list) - 1), 1, EmptyObj)

apiFactory(list) == apiFactoryFrom(list, 1, EmptyObj)

\* the payload { Action, ...data } handed to the RPC client
RequestPayload(Action, data) == Spread([Action |-> Action], data)

\* the options { ...(options || {}), ...{ path: '/v2/index.php' } }
RequestOptions(options) ==
  Spread(IF options = Undefined THEN EmptyObj ELSE options, [path |-> "/v2/index.php"])

\* default parameter isV3 = false
IsV3Default(isV3) == IF isV3 = Undefined THEN Bool(FALSE) ELSE isV3

\* request(): the code after the await, given the response
AfterAwait_CheckAlways(res, needCheck) ==
  IF res.code # 0
  THEN IF CheckExistsFromError(res)
       THEN Throw(HttpError(res.code, res.message))
       ELSE Return(res)
  ELSE Return(res)

AfterAwait_AlwaysFail(res, needCheck) ==
  IF TRUE
  THEN IF needCheck
       THEN IF CheckExistsFromError(res)
            THEN Throw(HttpError(res.code, res.message))
            ELSE Return(res)
       ELSE Throw(HttpError(res.code, res.message))
  ELSE Return(res)

AfterAwait(res, needCheck) ==
  IF res.code # 0
  THEN IF needCheck
       THEN IF CheckExistsFromError(res)
            THEN Throw(HttpError(res.code, res.message))
            ELSE Return(res)
       ELSE Throw(HttpError(res.code, res.message))
  ELSE Return(res)

\* catch (err) { throw err; }
Rethrow_Wrapped(err) == Throw(HttpError(-1, err.message))

Rethrow(err) == Throw(err)

Idle == [pc |-> "idle"]

Calls == 1 .. NumCalls

InitDispatcher ==
  /\ actionList = ActionListInit
  /\ needCheckAction = NeedCheckActionInit
  /\ apis = apiFactory(actionList)
  /\ calls = [c \in Calls |-> Idle]
  /\ rpc = [c \in Calls |-> << >>]

\* apis[item](data, options, isV3): runs request() up to its await
Call(c, item, data, options, isV3) ==
  /\ calls[c].pc = "idle"
  /\ item \in DOMAIN apis
  /\ LET Action == apis[item].item
         needCheck == indexOf(needCheckAction, Action) # -1
     IN /\ calls' = [calls EXCEPT ![c] =
                       [pc |-> "awaiting", item |-> item, data |-> data,
                        needCheck |-> needCheck]]
        /\ rpc' = [rpc EXCEPT ![c] = Append(@,
                       [payload |-> RequestPayload(Action, data),
                        options |-> RequestOptions(options),
                        isV3 |-> IsV3Default(isV3)])]
  /\ UNCHANGED <<actionList, needCheckAction, apis, config, result, revalidated>>

\* the RPC client's promise resolves with res
Resolve_SharedFlag(c, res) ==
  /\ calls[c].pc = "awaiting"
  /\ calls' = [calls EXCEPT ![c] =
                 [pc |-> "done", item |-> @.item, data |-> @.data,
                  needCheck |-> @.needCheck, res |-> res,
                  out |-> AfterAwait(res, \E d \in Calls :
                                            /\ calls[d].pc # "idle"
                                            /\ calls[d].needCheck)]]
  /\ UNCHANGED <<actionList, needCheckAction, apis, rpc, config, result, revalidated>>

Resolve(c, res) ==
  /\ calls[c].pc = "awaiting"
  /\ calls' = [calls EXCEPT ![c] =
                 [pc |-> "done", item |-> @.item, data |-> @.data,
                  needCheck |-> @.needCheck, res |-> res,
                  out |-> AfterAwait(res, @.needCheck)]]
  /\ UNCHANGED <<actionList, needCheckAction, apis, rpc, config, result, revalidated>>

\* the RPC client's promise rejects with err
Reject(c, err) ==
  /\ calls[c].pc = "awaiting"
  /\ calls' = [calls EXCEPT ![c] =
                 [pc |-> "failed", item |-> @.item, data |-> @.data,
                  needCheck |-> @.needCheck, err |-> err,
                  out |-> Rethrow(err)]]
  /\ UNCHANGED <<actionList, needCheckAction, apis, rpc, config, result, revalidated>>

\* the caller has consumed the settled promise; the slot is free for a new call
Settle(c) ==
  /\ calls[c].pc \in {"done", "failed"}
  /\ calls' = [calls EXCEPT ![c] = Idle]
  /\ rpc' = [rpc EXCEPT ![c] = << >>]
  /\ UNCHANGED <<actionList, needCheckAction, apis, config, result, revalidated>>

(***************************************************************************)
(* Inputs of the dispatcher                                                *)
(***************************************************************************)
Resource == <<"r","e","s","o","u","r","c","e"," ">>
PermissionDenied ==
  <<"p","e","r","m","i","s","s","i","o","n"," ","d","e","n","i","e","d">>

MessageCores ==
  { << >>, DoesNotExist, NotFound, PermissionDenied,
    <<"N","o","t"," ","F","o","u","n","d">>,
    <<"D","o","e","s"," ","n","o","t"," ","e","x","i","s","t">>,
    <<"n","o","t"," "," ","f","o","u","n","d">>,
    <<"n","o","t","f","o","u","n","d">>,
    SubSeq(DoesNotExist, 1, Len(DoesNotExist) - 1),
    Tail(NotFound) }

Messages ==
  { a \o m \o b : a \in {<< >>, Resource}, m \in MessageCores, b \in {<< >>, <<"!">>} }

Codes == {0, 1, 4100}

Response(code, message) ==
  [code |-> code, message |-> message, codeDesc |-> "desc"]

Responses == { Response(code, m) : code \in Codes, m \in Messages }

\* what the RPC client may throw: a transport-level failure
TransportErrors ==
  { [name |-> "Error", message |-> <<"t","i","m","e","o","u","t">>],
    [name |-> "Error", message |-> NotFound] }

Datas ==
  { EmptyObj,
    [serviceId |-> "service-1"],
    [Action |-> "DeleteService", serviceId |-> "service-1"] }

OptionsArgs == { Undefined, [path |-> "/v3/index.php", Region |-> "ap-guangzhou"] }

IsV3Args == { Undefined, Bool(TRUE) }

\* the inputs used when several calls are in flight
ConcActions ==
  { "UnBindSecretIds", "UnBindEnvironment", "DeleteUsagePlan", "DeleteApiKey",
    "CreateService", "BindSecretIds" }

ConcResponses ==
  { Response(code, m) : code \in {0, 1}, m \in {Resource \o NotFound, PermissionDenied} }

(***************************************************************************)
(* Specifications of the dispatcher                                        *)
(***************************************************************************)
InitValidateIdle ==
  /\ config = Undefined
  /\ result = Undefined
  /\ revalidated = Undefined

Init == InitDispatcher /\ InitValidateIdle

\* one call at a time, every action, wide inputs
Next ==
  \/ \E item \in DOMAIN apis, data \in Datas, options \in OptionsArgs, isV3 \in IsV3Args :
       Call(1, item, data, options, isV3)
  \/ \E res \in Responses : Resolve(1, res)
  \/ \E err \in TransportErrors : Reject(1, err)
  \/ Settle(1)

Spec == Init /\ [][Next]_vars

\* NumCalls calls in flight, responses arriving in any order
NextC ==
  \/ \E c \in Calls, item \in ConcActions : Call(c, item, EmptyObj, Undefined, Undefined)
  \/ \E c \in Calls, res \in ConcResponses : Resolve(c, res)
  \/ \E c \in Calls, err \in TransportErrors : Reject(c, err)
  \/ \E c \in Calls : Settle(c)

SpecC == Init /\ [][NextC]_vars

(***************************************************************************)
(* Properties of the dispatcher                                            *)
(***************************************************************************)
AllowList ==
  { "CreateService", "DeleteService", "DescribeService", "ReleaseService",
    "UnReleaseService", "CreateApi", "DescribeApi", "DeleteApi", "ModifyApi",
    "DescribeApisStatus", "CreateUsagePlan", "DescribeApiUsagePlan",
    "DescribeUsagePlanSecretIds", "DescribeUsagePlan", "DeleteUsagePlan",
    "ModifyUsagePlan", "CreateApiKey", "DeleteApiKey", "DisableApiKey",
    "EnableApiKey", "DescribeApiKeysStatus", "BindSecretIds", "UnBindSecretIds",
    "BindEnvironment", "UnBindEnvironment" }

ExistenceCheckSet ==
  { "UnBindSecretIds", "UnBindEnvironment", "DeleteUsagePlan", "DeleteApiKey" }

\* p occurs in m as a contiguous, case-sensitive substring
Contains(m, p) ==
  \E i \in 1 .. (Len(m) + 1) :
    /\ i + Len(p) - 1 <= Len(m)
    /\ SubSeq(m, i, i + Len(p) - 1) = p

SaysAbsent(m) == Contains(m, DoesNotExist) \/ Contains(m, NotFound)

\* C1: for an action of the existence-check set and a response with a
\* non-zero code, the call returns the response itself exactly when the
\* message contains "does not exist" or "not found"; otherwise it raises
\* HttpError with the response's code and message.
C1_ExistenceCheckBypass ==
  \A c \in Calls :
    (calls[c].pc = "done" /\ calls[c].item \in ExistenceCheckSet /\ calls[c].res.code # 0)
      => IF SaysAbsent(calls[c].res.message)
         THEN calls[c].out = Return(calls[c].res)
         ELSE calls[c].out = Throw(HttpError(calls[c].res.code, calls[c].res.message))

C1_Witness ==
  \E c \in Calls :
    /\ calls[c].pc = "done"
    /\ calls[c].item = "DeleteApiKey"
    /\ calls[c].res = Response(1, Resource \o NotFound)
    /\ calls[c].out = Return(calls[c].res)

\* C2: for every allow-listed action outside the existence-check set, a
\* response with a non-zero code raises HttpError(code, message) whatever
\* the message says.
C2_NoBypassElsewhere ==
  \A c \in Calls :
    (calls[c].pc = "done" /\ calls[c].item \in AllowList \ ExistenceCheckSet
       /\ calls[c].res.code # 0)
      => calls[c].out = Throw(HttpError(calls[c].res.code, calls[c].res.message))

C2_Witness ==
  \E c \in Calls :
    /\ calls[c].pc = "done"
    /\ calls[c].item = "CreateService"
    /\ calls[c].res = Response(1, DoesNotExist)
    /\ calls[c].out = Throw(HttpError(1, DoesNotExist))

\* C3: for every action, a response whose code is 0 is returned as it is.
C3_SuccessReturnsResponse ==
  \A c \in Calls :
    (calls[c].pc = "done" /\ calls[c].res.code = 0)
      => calls[c].out = Return(calls[c].res)

C3_Witness ==
  /\ \E c \in Calls :
       /\ calls[c].pc = "done"
       /\ calls[c].item \in ExistenceCheckSet
       /\ calls[c].res.code = 0
       /\ calls[c].out.kind = "return"
       /\ calls[c].out.value.codeDesc = "desc"

\* C4: the payload handed to the RPC client has Action equal to the name of
\* the invoked action, also when the parameters define Action themselves,
\* and every other key of the parameters is passed through unchanged.
C4_ActionWins ==
  \A c \in Calls :
    calls[c].pc # "idle"
      => LET payload == rpc[c][1].payload
             data == calls[c].data
         IN /\ payload.Action = calls[c].item
            /\ DOMAIN payload = DOMAIN data \cup {"Action"}
            /\ \A k \in DOMAIN data \ {"Action"} : payload[k] = data[k]

\* C5: apis has exactly the 25 keys of the allow-list, before and after any
\* calls, and a call passes needCheck = true exactly for the four actions of
\* the existence-check set.
C5_ActionTable ==
  /\ DOMAIN apis = AllowList
  /\ Cardinality(DOMAIN apis) = 25
  /\ \A c \in Calls :
       calls[c].pc # "idle"
         => (calls[c].needCheck <=> calls[c].item \in ExistenceCheckSet)

C5_Witness ==
  \E c \in Calls :
    /\ calls[c].pc = "done"
    /\ calls[c].item = "UnBindEnvironment"
    /\ calls[c].needCheck
    /\ Cardinality(DOMAIN apis) = 25

\* C8: a call issues exactly one request to the RPC client; a rejection of
\* that request reaches the caller as the same exception, a non-zero code
\* gives HttpError or the swallowed response, and in neither case is a
\* second request issued.
C8_State ==
  \A c \in Calls :
    /\ calls[c].pc = "idle" => Len(rpc[c]) = 0
    /\ calls[c].pc # "idle" => Len(rpc[c]) = 1
    /\ calls[c].pc = "failed" => calls[c].out = Throw(calls[c].err)
    /\ (calls[c].pc = "done" /\ calls[c].res.code # 0)
         => \/ calls[c].out = Throw(HttpError(calls[c].res.code, calls[c].res.message))
            \/ calls[c].out = Return(calls[c].res)

C8_Step ==
  \A c \in Calls :
    /\ Len(rpc'[c]) > Len(rpc[c]) => calls[c].pc = "idle"
    /\ calls[c].pc = "awaiting" => calls'[c].pc \in {"awaiting", "done", "failed"}
    /\ calls[c].pc \in {"done", "failed"} => calls'[c] \in {calls[c], Idle}

C8_OneRequestNoRetry == [](C8_State) /\ [][C8_Step]_vars

C8_Witness ==
  \E c \in Calls :
    /\ calls[c].pc = "failed"
    /\ calls[c].err.message = NotFound
    /\ calls[c].item \in ExistenceCheckSet
    /\ calls[c].out.kind = "throw"
    /\ Len(rpc[c]) = 1

\* what a call's own action name and own response determine
OwnOutcome(item, res) ==
  IF res.code = 0 THEN Return(res)
  ELSE IF item \in ExistenceCheckSet /\ SaysAbsent(res.message) THEN Return(res)
  ELSE Throw(HttpError(res.code, res.message))

\* C9: with several calls in flight and responses arriving in any order, each
\* call's outcome is determined by its own action and its own response, a
\* step of one call leaves every other call as it was, and no call changes
\* the action table or the existence-check set.
C9_Step ==
  /\ apis' = apis /\ actionList' = actionList /\ needCheckAction' = needCheckAction
  /\ \A c, d \in Calls :
       (c # d /\ calls'[c] # calls[c]) => (calls'[d] = calls[d] /\ rpc'[d] = rpc[d])
  /\ \A c \in Calls :
       calls'[c].pc = "done" => calls'[c].out = OwnOutcome(calls'[c].item, calls'[c].res)

C9_CallsIndependent == [][C9_Step]_vars

C9_Witness ==
  \E c, d \in Calls :
    /\ calls[c].pc = "done" /\ calls[c].item = "CreateService"
    /\ calls[c].res = Response(1, Resource \o NotFound)
    /\ calls[c].out.kind = "throw"
    /\ calls[d].pc = "awaiting" /\ calls[d].item = "DeleteApiKey"

(***************************************************************************)
(* Joi, as Validate uses it: schemas are built with the fluent API and      *)
(* Joi.validate walks the schema with the default options (abortEarly,     *)
(* convert, presence optional).                                            *)
(***************************************************************************)
NaN == [type |-> "nan"]

JoiAny(kind) ==
  [kind |-> kind, presence |-> "default", default |-> Undefined, error |-> "none",
   invalids |-> {}, tests |-> << >>, hasChildren |-> FALSE, children |-> << >>,
   inclusions |-> << >>, settings |-> EmptyObj]

\* Joi.string() does not accept the empty string
JoiString == [JoiAny("string") EXCEPT !.invalids = {Str(<< >>)}]
JoiNumber == JoiAny("number")
JoiBoolean == JoiAny("boolean")
JoiObject == JoiAny("object")
JoiArray == JoiAny("array")

optional(s) == [s EXCEPT !.presence = "optional"]
required(s) == [s EXCEPT !.presence = "required"]
default(s, v) == [s EXCEPT !.default = v]
error(s, message) == [s EXCEPT !.error = message]
min(s, limit) == [s EXCEPT !.tests = Append(@, [name |-> "min", arg |-> limit])]
max(s, limit) == [s EXCEPT !.tests = Append(@, [name |-> "max", arg |-> limit])]
integer(s) == [s EXCEPT !.tests = Append(@, [name |-> "integer", arg |-> 0])]
\* regex(/^(a|b|c)$/): alternatives is the set of the literals a, b, c
regex(s, alternatives) ==
  [s EXCEPT !.tests = Append(@, [name |-> "regex", arg |-> alternatives])]
keys(s, children) == [s EXCEPT !.hasChildren = TRUE, !.children = children]
items(s, schema) == [s EXCEPT !.inclusions = <<schema>>]
options(s, settings) == [s EXCEPT !.settings = settings]

DefaultOptions == [presence |-> "optional", allowUnknown |-> FALSE]

createError(schema, type, key) == [type |-> type, key |-> key, flagsError |-> schema.error]

Lower == <<"a","b","c","d","e","f","g","h","i","j","k","l","m","n","o","p","q","r","s","t","u","v","w","x","y","z">>
Upper == <<"A","B","C","D","E","F","G","H","I","J","K","L","M","N","O","P","Q","R","S","T","U","V","W","X","Y","Z">>

toLowerCaseChar(ch) ==
  IF \E i \in 1 .. Len(Upper) : Upper[i] = ch
  THEN Lower[CHOOSE i \in 1 .. Len(Upper) : Upper[i] = ch]
  ELSE ch

toLowerCase(s) == [i \in 1 .. Len(s) |-> toLowerCaseChar(s[i])]

Digits == <<"0","1","2","3","4","5","6","7","8","9">>

IsDigit(ch) == \E d \in 1 .. Len(Digits) : Digits[d] = ch

DigitValue(ch) == (CHOOSE d \in 1 .. Len(Digits) : Digits[d] = ch) - 1

RECURSIVE DigitsValue(_, _, _)
DigitsValue(s, i, acc) ==
  IF i > Len(s) THEN acc ELSE DigitsValue(s, i + 1, acc * 10 + DigitValue(s[i]))

\* parseFloat(value) guarded by isFinite(value), for the spellings made of an
\* optional sign and decimal digits; any other string here gives NaN
parseNumber(s) ==
  LET signed == Len(s) > 0 /\ s[1] \in {"-", "+"}
      body == IF signed THEN Tail(s) ELSE s
  IN IF Len(body) = 0 \/ \E i \in 1 .. Len(body) : ~IsDigit(body[i])
     THEN NaN
     ELSE Num((IF signed /\ s[1] = "-" THEN -1 ELSE 1) * DigitsValue(body, 1, 0))

\* the conversion each type applies to a string before its type check
stringBase(value) == value

numberBase(value) == IF value.type = "string" THEN parseNumber(value.val) ELSE value

booleanBase(value) ==
  IF value.type = "string"
  THEN LET normalized == toLowerCase(value.val)
       IN IF normalized = <<"t","r","u","e">> THEN Bool(TRUE)
          ELSE IF normalized = <<"f","a","l","s","e">> THEN Bool(FALSE)
          ELSE value
  ELSE value

\* one rule of a schema applied to a value of the schema's type
testFails(kind, test, value) ==
  CASE test.name = "min" ->
         IF kind = "number" THEN ~(value.val >= test.arg) ELSE ~(Len(value.val) >= test.arg)
    [] test.name = "max" ->
         IF kind = "number" THEN ~(value.val <= test.arg) ELSE ~(Len(value.val) <= test.arg)
    [] test.name = "integer" -> FALSE   \* every number of this model is an integer
    [] test.name = "regex" -> value.val \notin test.arg

RECURSIVE runTests(_, _, _)
runTests(schema, value, i) ==
  IF i > Len(schema.tests) THEN << >>
  ELSE IF testFails(schema.kind, schema.tests[i], value)
  THEN <<createError(schema, schema.kind \o "." \o schema.tests[i].name, "")>>
  ELSE runTests(schema, value, i + 1)

RECURSIVE validateNode(_, _, _)
RECURSIVE objectChildren(_, _, _, _)
RECURSIVE checkItems(_, _, _, _)

\* object: every child of the schema in the order of its definition
objectChildren(schema, target, opts, i) ==
  IF i > Len(schema.children) THEN [value |-> target, errors |-> << >>]
  ELSE LET key == schema.children[i][1]
           item == IF key \in DOMAIN target THEN target[key] ELSE Undefined
           r == validateNode(schema.children[i][2], item, opts)
       IN IF r.errors # << >>
          THEN [value |-> target,
                errors |-> <<createError(schema, "object.child", key)>> \o r.errors]
          ELSE objectChildren(schema,
                 IF r.value # Undefined
                 THEN Spread(target, [k \in {key} |-> r.value])
                 ELSE target,
                 opts, i + 1)

\* array: every item against the one items schema
checkItems(schema, arr, opts, i) ==
  IF i > Len(arr) THEN [value |-> arr, errors |-> << >>]
  ELSE IF schema.inclusions = << >> THEN checkItems(schema, arr, opts, i + 1)
  ELSE LET r == validateNode(schema.inclusions[1], arr[i], opts)
       IN IF r.errors # << >>
          THEN [value |-> arr,
                errors |-> <<createError(schema, "array.includesOne", "")>> \o r.errors]
          ELSE checkItems(schema, [arr EXCEPT ![i] = r.value], opts, i + 1)

childKeys(schema) == { schema.children[i][1] : i \in 1 .. Len(schema.children) }

\* the type check and conversion of a schema (its _base).  Joi also parses a
\* JSON string given where an object or an array is expected; the configs
\* below hold no string in such a place.
base(schema, value, opts) ==
  CASE schema.kind = "string" ->
         [value |-> stringBase(value),
          errors |-> IF value.type = "string" THEN << >>
                     ELSE <<createError(schema, "string.base", "")>>]
    [] schema.kind = "number" ->
         LET v == numberBase(value)
         IN [value |-> v,
             errors |-> IF v.type = "number" THEN << >>
                        ELSE <<createError(schema, "number.base", "")>>]
    [] schema.kind = "boolean" ->
         LET v == booleanBase(value)
         IN [value |-> v,
             errors |-> IF v.type = "boolean" THEN << >>
                        ELSE <<createError(schema, "boolean.base", "")>>]
    [] schema.kind = "object" ->
         IF value.type # "object"
         THEN [value |-> value, errors |-> <<createError(schema, "object.base", "")>>]
         ELSE IF ~schema.hasChildren THEN [value |-> value, errors |-> << >>]
         ELSE LET r == objectChildren(schema, value.val, opts, 1)
                  unprocessed == (DOMAIN value.val) \ childKeys(schema)
              IN IF r.errors # << >> THEN [value |-> Obj(r.value), errors |-> r.errors]
                 ELSE IF unprocessed # {} /\ ~opts.allowUnknown
                 THEN [value |-> Obj(r.value),
                       errors |-> <<createError(schema, "object.allowUnknown",
                                                CHOOSE k \in unprocessed : TRUE)>>]
                 ELSE [value |-> Obj(r.value), errors |-> << >>]
    [] schema.kind = "array" ->
         IF value.type # "array"
         THEN [value |-> value, errors |-> <<createError(schema, "array.base", "")>>]
         ELSE LET r == checkItems(schema, value.val, opts, 1)
              IN [value |-> Arr(r.value), errors |-> r.errors]

\* the value a schema hands back: the default stands in for undefined
finish(schema, value, errors) ==
  [value |-> IF value # Undefined THEN value ELSE schema.default, errors |-> errors]

\* any._validate
validateNode(schema, value, inherited) ==
  LET opts == Spread(inherited, schema.settings)
      presence == IF schema.presence = "default" THEN opts.presence ELSE schema.presence
  IN IF value = Undefined
     THEN IF presence = "required"
          THEN finish(schema, value, <<createError(schema, "any.required", "")>>)
          ELSE finish(schema, value, << >>)
     ELSE IF value \in schema.invalids
     THEN finish(schema, value, <<createError(schema, "any.empty", "")>>)
     ELSE LET b == base(schema, value, opts)
          IN IF b.errors # << >> THEN finish(schema, b.value, b.errors)
             ELSE finish(schema, b.value, runTests(schema, b.value, 1))

\* Errors.process: an Error given to .error() is handed back as it is,
\* otherwise a ValidationError describes the failed rule
RECURSIVE processErrors(_, _)
processErrors(errors, i) ==
  IF i > Len(errors) THEN "none"
  ELSE IF errors[i].flagsError # "none" THEN errors[i].flagsError
  ELSE processErrors(errors, i + 1)

IsKey(k) == k # ""

errorPath(errors) ==
  SelectSeq([i \in 1 .. Len(errors) |-> errors[i].key], IsKey)

process(errors) ==
  IF errors = << >> THEN [name |-> "null"]
  ELSE IF processErrors(errors, 1) # "none"
  THEN [name |-> "Error", message |-> processErrors(errors, 1)]
  ELSE [name |-> "ValidationError", rule |-> errors[Len(errors)].type,
        path |-> errorPath(errors)]

JoiValidate(value, schema) ==
  LET r == validateNode(schema, value, DefaultOptions)
  IN [error |-> process(r.errors), value |-> r.value]

(***************************************************************************)
(* Validate: the schemas                                                   *)
(***************************************************************************)
\* the string literals of the schemas and of the configs below
S_ap_guangzhou == <<"a","p","-","g","u","a","n","g","z","h","o","u">>
S_ap_shanghai == <<"a","p","-","s","h","a","n","g","h","a","i">>
S_http == <<"h","t","t","p">>
S_https == <<"h","t","t","p","s">>
S_http_and_https == <<"h","t","t","p","&","h","t","t","p","s">>
S_ftp == <<"f","t","p">>
S_prepub == <<"p","r","e","p","u","b">>
S_test == <<"t","e","s","t">>
S_release == <<"r","e","l","e","a","s","e">>
S_GET == <<"G","E","T">>
S_POST == <<"P","O","S","T">>
S_PUT == <<"P","U","T">>
S_DELETE == <<"D","E","L","E","T","E">>
S_HEAD == <<"H","E","A","D">>
S_ANY == <<"A","N","Y">>
S_get == <<"g","e","t">>
S_LATEST == <<"$","L","A","T","E","S","T">>
S_a == <<"a">>
S_svc == <<"s","v","c">>
S_slash == <<"/">>
S_fn == <<"f","n">>
S_v1 == <<"v","1">>
S_plan == <<"p","l","a","n">>
S_5 == <<"5">>
S_30 == <<"3","0">>
S_true == <<"t","r","u","e">>
S_secret == <<"s","e","c","r","e","t">>
S_dev == <<"d","e","v">>

maxRequestNumScheme_DefaultInRange ==
  default(optional(max(min(integer(JoiNumber), 1), 99999999)), Num(1))

maxRequestNumScheme ==
  default(optional(max(min(integer(JoiNumber), 1), 99999999)), Num(-1))

maxRequestNumPreSecScheme_NoDefault ==
  optional(max(min(integer(JoiNumber), 1), 2000))

maxRequestNumPreSecScheme ==
  default(optional(max(min(integer(JoiNumber), 1), 2000)), Num(1000))

usagePlanScheme ==
  << <<"usagePlanId", optional(JoiString)>>,
     <<"usagePlanDesc", optional(max(JoiString, 200))>>,
     <<"maxRequestNum", maxRequestNumScheme>>,
     <<"maxRequestNumPreSec", maxRequestNumPreSecScheme>>,
     <<"usagePlanName",
       error(required(max(min(JoiString, 2), 50)),
             "\"usagePlan.usagePlanName\" is required")>> >>

functionScheme ==
  required(keys(JoiObject,
    << <<"isIntegratedResponse", default(optional(JoiBoolean), Bool(FALSE))>>,
       <<"functionQualifier", default(optional(JoiString), Str(S_LATEST))>>,
       <<"functionName",
         error(required(JoiString),
               "\"endpoints.function.functionName\" is required")>> >>))

authScheme ==
  keys(JoiObject,
    << <<"serviceTimeout", default(optional(integer(JoiNumber)), Num(15))>>,
       <<"secretName", required(JoiString)>>,
       <<"secretIds", max(JoiArray, 100)>> >>)

endpointsScheme ==
  required(items(max(JoiArray, 100),
    keys(JoiObject,
      << <<"apiId", optional(JoiString)>>,
         <<"description", optional(max(JoiString, 200))>>,
         <<"enableCORS", default(optional(JoiBoolean), Bool(FALSE))>>,
         <<"path", required(JoiString)>>,
         <<"method",
           required(regex(JoiString, {S_GET, S_POST, S_PUT, S_DELETE, S_HEAD, S_ANY}))>>,
         <<"function", functionScheme>>,
         <<"usagePlan", keys(JoiObject, usagePlanScheme)>>,
         <<"auth", authScheme>> >>)))

globalScheme ==
  options(keys(JoiObject,
    << <<"region", default(optional(JoiString), Str(S_ap_guangzhou))>>,
       <<"serviceId", optional(JoiString)>>,
       <<"protocol",
         default(optional(regex(JoiString, {S_http, S_https, S_http_and_https})),
                 Str(S_http))>>,
       <<"serviceName",
         error(required(max(min(JoiString, 2), 50)), "\"serviceName\" is required")>>,
       <<"description", optional(max(JoiString, 200))>>,
       <<"environment",
         default(optional(regex(JoiString, {S_prepub, S_test, S_release})),
                 Str(S_release))>>,
       <<"endpoints", endpointsScheme>> >>),
    [allowUnknown |-> TRUE])

\* Validate(config = {}): throws gloalResult.error or returns gloalResult.value
Validate(cfg) ==
  LET gloalResult == JoiValidate(IF cfg = Undefined THEN Obj(EmptyObj) ELSE cfg, globalScheme)
  IN IF gloalResult.error.name # "null"
     THEN Throw(gloalResult.error)
     ELSE Return(gloalResult.value)

(***************************************************************************)
(* Inputs of Validate                                                      *)
(***************************************************************************)
LongName == [i \in 1 .. 51 |-> "a"]

TopOptionals ==
  { EmptyObj,
    [region |-> Str(S_ap_shanghai)],
    [protocol |-> Str(S_ftp)],
    [region |-> Str(S_ap_shanghai), protocol |-> Str(S_https),
     environment |-> Str(S_test), stage |-> Str(S_dev)] }

ServiceNames ==
  { EmptyObj,
    [serviceName |-> Str(S_a)],
    [serviceName |-> Str(S_svc)],
    [serviceName |-> Str(LongName)],
    [serviceName |-> Num(7)] }

EndpointMiscs ==
  { [path |-> Str(S_slash), method |-> Str(S_GET)],
    [path |-> Str(S_slash), method |-> Str(S_get)],
    [path |-> Str(S_slash), method |-> Str(S_POST), enableCORS |-> Bool(TRUE),
     auth |-> Obj([secretName |-> Str(S_secret), serviceTimeout |-> Num(30),
                   secretIds |-> Arr(<<Str(S_a)>>)])],
    [path |-> Str(S_slash), method |-> Str(S_GET), enableCORS |-> Str(S_true),
     auth |-> Obj([secretName |-> Str(S_secret), serviceTimeout |-> Str(S_30)])],
    [path |-> Str(S_slash), method |-> Str(S_GET),
     auth |-> Obj([secretName |-> Str(S_secret)])],
    [path |-> Str(S_slash), method |-> Str(S_GET), auth |-> Obj(EmptyObj)] }

EndpointFunctions ==
  { EmptyObj,
    [function |-> Obj(EmptyObj)],
    [function |-> Obj([functionName |-> Str(S_fn)])],
    [function |-> Obj([functionName |-> Num(5)])],
    [function |-> Obj([functionName |-> Str(S_fn), isIntegratedResponse |-> Bool(TRUE),
                       functionQualifier |-> Str(S_v1)])] }

EndpointUsagePlans ==
  { EmptyObj,
    [usagePlan |-> Obj([usagePlanName |-> Str(S_plan)])],
    [usagePlan |-> Obj([usagePlanName |-> Str(S_plan), maxRequestNum |-> Num(5),
                        maxRequestNumPreSec |-> Num(500)])],
    [usagePlan |-> Obj([usagePlanName |-> Str(S_plan), maxRequestNum |-> Str(S_5)])],
    [usagePlan |-> Obj([usagePlanName |-> Str(S_plan), maxRequestNum |-> Num(-1)])],
    [usagePlan |-> Obj([usagePlanName |-> Str(S_a), maxRequestNum |-> Num(5)])],
    [usagePlan |-> Obj([maxRequestNum |-> Num(5)])] }

\* every misc part and every usagePlan with a valid function, and every
\* function with and without a usagePlan
Endpoints ==
  { Obj(Spread(Spread(m, [function |-> Obj([functionName |-> Str(S_fn)])]), u)) :
      m \in EndpointMiscs, u \in EndpointUsagePlans }
    \cup { Obj(Spread(Spread([path |-> Str(S_slash), method |-> Str(S_GET)], f), u)) :
             f \in EndpointFunctions,
             u \in { EmptyObj, [usagePlan |-> Obj([usagePlanName |-> Str(S_plan)])] } }

RECURSIVE SeqsUpTo(_, _)
SeqsUpTo(S, n) ==
  IF n = 0 THEN { << >> }
  ELSE LET shorter == SeqsUpTo(S, n - 1)
       IN shorter \cup { Append(q, x) : q \in shorter, x \in S }

EndpointsArgs ==
  { EmptyObj } \cup { [endpoints |-> Arr(q)] : q \in SeqsUpTo(Endpoints, MaxEndpoints) }

ValidEndpoint ==
  Obj([path |-> Str(S_slash), method |-> Str(S_GET),
       function |-> Obj([functionName |-> Str(S_fn)])])

\* every top level with one valid endpoint, and three top levels with every
\* list of endpoints
Configs ==
  { Undefined }
    \cup { Obj(Spread(Spread(o, n), [endpoints |-> Arr(<<ValidEndpoint>>)])) :
             o \in TopOptionals, n \in ServiceNames }
    \cup { Obj(Spread(Spread(o, [serviceName |-> Str(S_svc)]), e)) :
             o \in { EmptyObj, [region |-> Str(S_ap_shanghai), protocol |-> Str(S_https),
                                environment |-> Str(S_test), stage |-> Str(S_dev)] },
             e \in EndpointsArgs }
    \cup { Obj(e) : e \in EndpointsArgs }

(***************************************************************************)
(* Specification of Validate: a config is validated, and the value         *)
(* Validate returned may be validated again                                *)
(***************************************************************************)
InitV ==
  /\ InitDispatcher
  /\ config \in Configs
  /\ result = Undefined
  /\ revalidated = Undefined

DoValidate ==
  /\ result = Undefined
  /\ result' = Validate(config)
  /\ UNCHANGED <<actionList, needCheckAction, apis, calls, rpc, config, revalidated>>

DoRevalidate ==
  /\ result # Undefined
  /\ result.kind = "return"
  /\ revalidated = Undefined
  /\ revalidated' = Validate(result.value)
  /\ UNCHANGED <<actionList, needCheckAction, apis, calls, rpc, config, result>>

NextV == DoValidate \/ DoRevalidate

SpecV == InitV /\ [][NextV]_vars

(***************************************************************************)
(* Properties of Validate                                                  *)
(***************************************************************************)
Has(obj, k) == k \in DOMAIN obj.val

EndpointsOf(cfg) ==
  IF cfg # Undefined /\ Has(cfg, "endpoints") /\ cfg.val.endpoints.type = "array"
  THEN cfg.val.endpoints.val
  ELSE << >>

RequiredError(field) == Throw([name |-> "Error", message |-> "\"" \o field \o "\" is required"])

ServiceNameMissing(cfg) == cfg = Undefined \/ ~Has(cfg, "serviceName")

UsagePlanNameMissing(cfg) ==
  \E i \in 1 .. Len(EndpointsOf(cfg)) :
    LET ep == EndpointsOf(cfg)[i]
    IN /\ ep.type = "object" /\ Has(ep, "usagePlan")
       /\ ep.val.usagePlan.type = "object" /\ ~Has(ep.val.usagePlan, "usagePlanName")

FunctionNameMissing(cfg) ==
  \E i \in 1 .. Len(EndpointsOf(cfg)) :
    LET ep == EndpointsOf(cfg)[i]
    IN /\ ep.type = "object" /\ Has(ep, "function")
       /\ ep.val.function.type = "object" /\ ~Has(ep.val.function, "functionName")

\* cfg with a valid serviceName put in
WithServiceName(cfg) ==
  Obj(Spread(IF cfg = Undefined THEN EmptyObj ELSE cfg.val, [serviceName |-> Str(S_svc)]))

\* C6: a missing serviceName (in a config with nothing else wrong) raises
\* '"serviceName" is required', and each of the three customized messages is
\* raised only when its field is missing, never for another violation of
\* the same field.
C6_CustomMessageOnlyWhenMissing ==
  result # Undefined =>
    /\ (ServiceNameMissing(config) /\ Validate(WithServiceName(config)).kind = "return")
         => result = RequiredError("serviceName")
    /\ result = RequiredError("serviceName") => ServiceNameMissing(config)
    /\ result = RequiredError("usagePlan.usagePlanName") => UsagePlanNameMissing(config)
    /\ result = RequiredError("endpoints.function.functionName")
         => FunctionNameMissing(config)

RECURSIVE ToDecimalDigits(_)
ToDecimalDigits(n) ==
  IF n < 10 THEN <<Digits[n + 1]>>
  ELSE Append(ToDecimalDigits(n \div 10), Digits[(n % 10) + 1])

\* the decimal spelling of an integer
ToDecimal(n) == IF n < 0 THEN <<"-">> \o ToDecimalDigits(-n) ELSE ToDecimalDigits(n)

NumberFields == {"maxRequestNum", "maxRequestNumPreSec", "serviceTimeout"}
BooleanFields == {"enableCORS", "isIntegratedResponse"}

\* the supplied value is kept, or, when converting is TRUE, a string supplied
\* for a number or boolean field has become the number or boolean it spells
LeafKept(k, in, out, converting) ==
  IF converting /\ in.type = "string" /\ k \in NumberFields
  THEN out.type = "number" /\ ToDecimal(out.val) = in.val
  ELSE IF converting /\ in.type = "string" /\ k \in BooleanFields
  THEN out.type = "boolean" /\ (out.val <=> in.val = S_true)
  ELSE out = in

RECURSIVE ValueKept(_, _, _, _)
ValueKept(k, in, out, converting) ==
  CASE in.type = "object" ->
         /\ out.type = "object"
         /\ \A j \in DOMAIN in.val :
              j \in DOMAIN out.val /\ ValueKept(j, in.val[j], out.val[j], converting)
    [] in.type = "array" ->
         /\ out.type = "array"
         /\ Len(out.val) = Len(in.val)
         /\ \A i \in 1 .. Len(in.val) : ValueKept(k, in.val[i], out.val[i], converting)
    [] OTHER -> LeafKept(k, in, out, converting)

\* an omitted key k of in holds v in out
Filled(in, out, k, v) == Has(in, k) \/ (Has(out, k) /\ out.val[k] = v)

DefaultsFilled(in, out) ==
  /\ Filled(in, out, "region", Str(S_ap_guangzhou))
  /\ Filled(in, out, "protocol", Str(S_http))
  /\ Filled(in, out, "environment", Str(S_release))
  /\ Len(EndpointsOf(out)) = Len(EndpointsOf(in))
  /\ \A i \in 1 .. Len(EndpointsOf(in)) :
       LET ei == EndpointsOf(in)[i]
           eo == EndpointsOf(out)[i]
       IN /\ Filled(ei, eo, "enableCORS", Bool(FALSE))
          /\ Has(eo, "function")
          /\ Filled(ei.val.function, eo.val.function, "isIntegratedResponse", Bool(FALSE))
          /\ Filled(ei.val.function, eo.val.function, "functionQualifier", Str(S_LATEST))
          /\ Has(ei, "usagePlan") =>
               /\ Has(eo, "usagePlan")
               /\ Filled(ei.val.usagePlan, eo.val.usagePlan, "maxRequestNum", Num(-1))
               /\ Filled(ei.val.usagePlan, eo.val.usagePlan, "maxRequestNumPreSec", Num(1000))
          /\ Has(ei, "auth") =>
               /\ Has(eo, "auth")
               /\ Filled(ei.val.auth, eo.val.auth, "serviceTimeout", Num(15))

Accepted == result # Undefined /\ result.kind = "return"

OmitsMaxRequestNum(cfg) ==
  \E i \in 1 .. Len(EndpointsOf(cfg)) :
    LET ep == EndpointsOf(cfg)[i]
    IN Has(ep, "usagePlan") /\ ~Has(ep.val.usagePlan, "maxRequestNum")

\* C10 as claimed: Validate accepts its own output and returns it unchanged.
C10_Idempotent ==
  revalidated # Undefined => revalidated = result

\* C10 as amended: Validate accepts its own output and returns it unchanged
\* exactly when no endpoint's usagePlan left maxRequestNum out; when one
\* did, the filled-in default -1 is below the field's minimum 1 and the
\* second Validate raises a ValidationError on maxRequestNum.
C10_IdempotentUnlessDefaultMaxRequestNum ==
  revalidated # Undefined =>
    IF OmitsMaxRequestNum(config)
    THEN /\ revalidated.kind = "throw"
         /\ revalidated.value.name = "ValidationError"
         /\ revalidated.value.rule = "number.min"
         /\ revalidated.value.path[Len(revalidated.value.path)] = "maxRequestNum"
    ELSE revalidated = result

C10_Witness ==
  /\ revalidated # Undefined
  /\ revalidated = result
  /\ \E i \in 1 .. Len(EndpointsOf(config)) :
       LET ep == EndpointsOf(config)[i]
       IN /\ Has(ep, "usagePlan") /\ Has(ep, "auth")
          /\ ~Has(ep.val.usagePlan, "maxRequestNumPreSec")
          /\ ep.val.usagePlan.val.maxRequestNum = Str(S_5)
          /\ ~Has(ep.val.auth, "serviceTimeout")

====
